---- MODULE Spec2Model ----
(***************************************************************************)
(* A model of the Digital-Twins flood pipeline: rainfall ingestion         *)
(* (hirds_rainfall_data_to_db.py), rainfall depth retrieval                *)
(* (hirds_depth_data_from_db.py), the tide query-location resolver         *)
(* (tide_query_location.py) and the flood model runner                     *)
(* (bg_flood_model.py).  Each component has its own specification over the *)
(* shared variables; the variables of the other components stay idle.      *)
(***************************************************************************)
EXTENDS Integers, Sequences, FiniteSets, TLC

(***************************************************************************)
(* Bounds of the model.                                                    *)
(***************************************************************************)
\* rainfall site ids are 1..NumSites
NumSites == 2
\* longest site_id column of a sites_in_catchment frame
MaxLen == 2
\* most layout blocks in one HIRDS response
MaxBlocks == 2

\* most rows of the hirds_rain_depth table
MaxRows == 2
\* catchment vertices have coordinates 0..GridMax
GridMax == 3
\* most calls of run_bg_flood_model in one process
MaxRuns == 2
\* river input files are river1 .. river<MaxRivers>
MaxRivers == 2
\* the extent fields of a river file name are 1..MaxExtent
MaxExtent == 1
\* most extent fields in a river file name
MaxFields == 2
\* most files in the model directory at the start
MaxFiles == 2
\* REC1 reaches have the objectids 1..MaxReaches
MaxReaches == 2
\* most rows of the table sea_draining_catchments
MaxSdc == 2

VARIABLES
    rainDb,     \* the tables rainfall_depth and rainfall_intensity
    rainCall,   \* the last call of rainfall_data_to_db: arguments and effects
    depthDb,    \* the table hirds_rain_depth
    depthCall,  \* the last call of the depth retrieval: arguments and result
    tideCall,   \* the last run of the tide resolver: arguments and result
    cwd,        \* the working directory of the process
    modelDir,   \* the files of the BG-Flood directory: name -> content
    outputTable,\* the rows of the table bg_flood_model_output
    outputFiles,\* the model output files: path -> whether it has a CRS
    geoserver,  \* the output paths published to the map server, in order
    clock,      \* the wall clock, in seconds since the process started
    floodCall,  \* the last call of run_bg_flood_model: arguments and effects
    recDb,      \* the table rec1_data
    sdcDb,      \* the table sea_draining_catchments
    riverCall   \* the last call of the REC1 module: arguments and effects

rainVars == <<rainDb, rainCall>>
depthVars == <<depthDb, depthCall>>
tideVars == <<tideCall>>
floodVars == <<cwd, modelDir, outputTable, outputFiles, geoserver, clock,
               floodCall>>
riverVars == <<recDb, sdcDb, riverCall>>
vars == <<rainDb, rainCall, depthDb, depthCall, tideCall, cwd, modelDir,
          outputTable, outputFiles, geoserver, clock, floodCall, recDb, sdcDb,
          riverCall>>

(***************************************************************************)
(* Generic helpers.                                                        *)
(***************************************************************************)
Range(s) == {s[i] : i \in 1..Len(s)}

SeqsUpTo(S, n) == UNION {[1..k -> S] : k \in 0..n}

\* every list that holds each element of S exactly once
Orderings(S) == {p \in [1..Cardinality(S) -> S] : Range(p) = S}

(***************************************************************************)
(* Rainfall data ingestion: hirds_rainfall_data_to_db.py                   *)
(***************************************************************************)
Sites == 1..NumSites

RainTables == {"rainfall_depth", "rainfall_intensity"}

\* A table: whether it exists and, per site and layout block, how many times
\* the block's rows were appended.
NoRows == [s \in Sites |-> [b \in 1..MaxBlocks |-> 0]]
AbsentTable == [exists |-> FALSE, rows |-> NoRows]

db_rain_table_name_swapped(idf) ==
    IF idf = FALSE THEN "rainfall_intensity" ELSE "rainfall_depth"

db_rain_table_name(idf) ==
    IF idf = FALSE THEN "rainfall_depth" ELSE "rainfall_intensity"

get_sites_id_in_catchment(sites_in_catchment) == sites_in_catchment

check_table_exists(db, table_name) == db[table_name].exists

\* SELECT DISTINCT site_id FROM <table>
DistinctSiteIds(db, table_name) ==
    {s \in Sites : \E b \in 1..MaxBlocks : db[table_name].rows[s][b] > 0}

get_sites_id_not_in_db_all(db, sites_id_in_catchment, idf) ==
    Orderings(Range(sites_id_in_catchment))

\* list(set(a).difference(b)): the missing ids in any order
get_sites_id_not_in_db(db, sites_id_in_catchment, idf) ==
    LET rain_table_name == db_rain_table_name(idf)
        sites_id_in_db == DistinctSiteIds(db, rain_table_name)
    IN  Orderings(Range(sites_id_in_catchment) \ sites_id_in_db)

\* The layout structure of the HIRDS response of a site: its blocks.
get_layout_structure_of_data(site_id, idf) ==
    1..(1 + ((site_id + (IF idf THEN 1 ELSE 0)) % MaxBlocks))

\* a to_sql that replaces the table by the block's rows
to_sql_replace(db, table_name, site_id, block) ==
    [db EXCEPT ![table_name] =
        [exists |-> TRUE,
         rows |-> [NoRows EXCEPT ![site_id][block] = 1]]]

\* to_sql(rain_table_name, engine, if_exists="append") of one block's rows
to_sql_append(db, table_name, site_id, block) ==
    [db EXCEPT ![table_name] =
        [exists |-> TRUE,
         rows |-> [@.rows EXCEPT ![site_id][block] = @ + 1]]]

RECURSIVE AppendBlocks(_, _, _, _, _)
AppendBlocks(db, table_name, site_id, b, last) ==
    IF b > last THEN db
    ELSE AppendBlocks(to_sql_append(db, table_name, site_id, b),
                      table_name, site_id, b + 1, last)

\* A failure of one call: none, or the step that raises.  stage 0 is the
\* HIRDS fetch of the site at position `at`, stage k >= 1 the append of its
\* k-th layout block.
NoFailure == [at |-> 0, stage |-> 0]

\* The state threaded through one call of rainfall_data_to_db.
\* failStage: -1 nothing raises, 0 the fetch raises, k the k-th append raises.
add_rainfall_data_to_db(st, site_id, idf, failStage) ==
    LET rain_table_name == db_rain_table_name(idf)
        layout_structure == get_layout_structure_of_data(site_id, idf)
        n == Cardinality(layout_structure)
        done == IF failStage < 0 THEN n ELSE failStage - 1
    IN  IF failStage = 0
        THEN [st EXCEPT !.fetched = Append(@, site_id),
                        !.outcome = "HirdsError"]
        ELSE [db |-> AppendBlocks(st.db, rain_table_name, site_id, 1, done),
              fetched |-> Append(st.fetched, site_id),
              inserted |-> st.inserted \o [b \in 1..done |-> <<site_id, b>>],
              outcome |-> IF failStage < 0 THEN "ok" ELSE "DbError",
              log |-> IF failStage < 0 THEN Append(st.log, "added") ELSE st.log]

RECURSIVE add_each_site_rainfall_data(_, _, _, _, _)
\* a loop that stops after the first site of the list
add_each_site_rainfall_data_first_only(st, sites_id_list, idf, i, fail) ==
    IF i > 1 \/ i > Len(sites_id_list) THEN st
    ELSE add_rainfall_data_to_db(st, sites_id_list[i], idf,
                                 IF fail.at = i THEN fail.stage ELSE -1)

add_each_site_rainfall_data(st, sites_id_list, idf, i, fail) ==
    IF i > Len(sites_id_list) THEN st
    ELSE LET failStage == IF fail.at = i THEN fail.stage ELSE -1
             next == add_rainfall_data_to_db(st, sites_id_list[i], idf, failStage)
         IN  IF next.outcome # "ok" THEN next
             ELSE add_each_site_rainfall_data(next, sites_id_list, idf, i + 1, fail)

\* The failures that can strike while the sites of a list are added.
Failures(sites_id_list, idf) ==
    {NoFailure} \cup
    {f \in [at : 1..MaxLen, stage : 0..MaxBlocks] :
        /\ f.at <= Len(sites_id_list)
        /\ f.stage <= Cardinality(
               get_layout_structure_of_data(sites_id_list[f.at], idf))}

\* The results one call can have: the list order of a set difference and the
\* step that fails, if any, are not decided by the arguments.
rainfall_data_to_db(db, sites_in_catchment, idf) ==
    LET sites_id_in_catchment == get_sites_id_in_catchment(sites_in_catchment)
        table_name == db_rain_table_name(idf)
        start == [db |-> db, fetched |-> <<>>, inserted |-> <<>>,
                  outcome |-> "ok", log |-> <<>>]
        AddAll(list) ==
            {add_each_site_rainfall_data(start, list, idf, 1, f) :
                f \in Failures(list, idf)}
    IN  IF check_table_exists(db, table_name)
        THEN UNION {IF sites_id_not_in_db # <<>>
                    THEN AddAll(sites_id_not_in_db)
                    ELSE {[start EXCEPT !.log = <<"already available">>]} :
                    sites_id_not_in_db \in
                        get_sites_id_not_in_db(db, sites_id_in_catchment, idf)}
        ELSE IF sites_id_in_catchment # <<>>
             THEN AddAll(sites_id_in_catchment)
             ELSE {[start EXCEPT !.log = <<"no sites">>]}

NoRainCall ==
    [idf |-> FALSE, sites |-> <<>>, outcome |-> "none", fetched |-> <<>>,
     inserted |-> <<>>, log |-> <<>>, preExists |-> FALSE, preSites |-> {}]

RainInit ==
    /\ rainDb = [t \in RainTables |-> AbsentTable]
    /\ rainCall = NoRainCall

\* One run of the rainfall script calls rainfall_data_to_db once.
RainfallDataToDb ==
    /\ rainCall.outcome = "none"
    /\ \E idf \in BOOLEAN, sites_in_catchment \in SeqsUpTo(Sites, MaxLen) :
        \E r \in rainfall_data_to_db(rainDb, sites_in_catchment, idf) :
            /\ rainDb' = r.db
            /\ rainCall' =
                [idf |-> idf, sites |-> sites_in_catchment,
                 outcome |-> r.outcome, fetched |-> r.fetched,
                 inserted |-> r.inserted, log |-> r.log,
                 preExists |-> check_table_exists(rainDb, db_rain_table_name(idf)),
                 preSites |-> DistinctSiteIds(rainDb, db_rain_table_name(idf))]

\* The process ends: the call's record is gone, the database stays.
RainProcessEnd ==
    /\ rainCall.outcome # "none"
    /\ rainCall' = NoRainCall
    /\ UNCHANGED rainDb

RainNext ==
    \/ RainfallDataToDb /\ UNCHANGED <<depthVars, tideVars, floodVars, riverVars>>
    \/ RainProcessEnd /\ UNCHANGED <<depthVars, tideVars, floodVars, riverVars>>

(***************************************************************************)
(* Rainfall depth retrieval: hirds_depth_data_from_db.py                   *)
(***************************************************************************)
\* Python's None, and NULL in a column
None == "None"

Aris == {10, 100}
Durations == {1, 24}
Rcps == {"2.6"}
TimePeriods == {"2031-2050"}

\* A row of hirds_rain_depth.  rcp and time_period are both NULL or both
\* set; the duration columns "1h", "24h" hold base + duration.
DepthRows ==
    {r \in [site_id : Sites, ari : Aris, rcp : Rcps \cup {None},
            time_period : TimePeriods \cup {None}, base : {100, 200}] :
        (r.rcp = None) <=> (r.time_period = None)}

\* the value of column "<duration>h" of a row
DurationColumn(row, duration) == row.base + duration

\* the rows the query of get_each_site_hirds_depth_data selects
MatchingRows(db, ari, duration, site, rcp, time_period) ==
    IF rcp # None /\ time_period # None
    THEN {r \in db : r.site_id = site /\ r.ari = ari /\ r.rcp # None /\
                     r.time_period # None /\ r.rcp = rcp /\
                     r.time_period = time_period}
    ELSE {r \in db : r.site_id = site /\ r.ari = ari /\ r.rcp = None /\
                     r.time_period = None}

\* the check that raises only when rcp is None and time_period is not
PairCheckOneSided(rcp, time_period) ==
    rcp = None /\ time_period # None

PairCheck(rcp, time_period) ==
    \/ rcp = None /\ time_period # None
    \/ rcp # None /\ time_period = None

\* The results a call can have: fetchone() returns any first row of the
\* selection, or None, and list(None) raises TypeError.
get_each_site_hirds_depth_data(db, ari, duration, site, rcp, time_period) ==
    IF PairCheck(rcp, time_period)
    THEN {[outcome |-> "ValueError", value |-> <<>>, queries |-> 0, db |-> db]}
    ELSE LET rows == MatchingRows(db, ari, duration, site, rcp, time_period)
         IN  IF rows = {}
             THEN {[outcome |-> "TypeError", value |-> <<>>, queries |-> 1,
                    db |-> db]}
             ELSE {[outcome |-> "ok",
                    value |-> <<r.site_id, DurationColumn(r, duration)>>,
                    queries |-> 1, db |-> db] : r \in rows}

\* the loop of hirds_depths_from_db from the i-th site on; acc holds the
\* depths_list so far
RECURSIVE DepthsLoop(_, _, _, _, _, _, _)
DepthsLoop(acc, sites_in_catchment, i, ari, duration, rcp, time_period) ==
    IF i > Len(sites_in_catchment) THEN {acc}
    ELSE UNION {
        IF r.outcome # "ok"
        THEN {[acc EXCEPT !.outcome = r.outcome,
                          !.queries = @ + r.queries, !.db = r.db]}
        ELSE DepthsLoop([acc EXCEPT !.value = Append(@, r.value),
                                    !.queries = @ + r.queries, !.db = r.db],
                        sites_in_catchment, i + 1, ari, duration, rcp,
                        time_period) :
        r \in get_each_site_hirds_depth_data(acc.db, ari, duration,
                  sites_in_catchment[i], rcp, time_period)}

\* a loop that skips the last site of the catchment
hirds_depths_from_db_short(db, sites_in_catchment, ari, duration, rcp, time_period) ==
    DepthsLoop([outcome |-> "ok", value |-> <<>>, queries |-> 0, db |-> db],
               SubSeq(sites_in_catchment, 1, Len(sites_in_catchment) - 1),
               1, ari, duration, rcp, time_period)

\* The data frame is [columns, rows]; value holds its rows.
hirds_depths_from_db(db, sites_in_catchment, ari, duration, rcp, time_period) ==
    DepthsLoop([outcome |-> "ok", value |-> <<>>, queries |-> 0, db |-> db],
               sites_in_catchment, 1, ari, duration, rcp, time_period)

DepthColumns == <<"site_id", "depth">>

NoDepthCall ==
    [op |-> "none", sites |-> <<>>, ari |-> 0, duration |-> 0, rcp |-> None,
     time_period |-> None, outcome |-> "none", value |-> <<>>,
     columns |-> <<>>, queries |-> 0]

DepthIdle ==
    /\ depthDb = {}
    /\ depthCall = NoDepthCall

\* the table holds any rows the depth ingestion stored
DepthInit ==
    /\ depthDb \in {t \in SUBSET DepthRows : Cardinality(t) <= MaxRows}
    /\ depthCall = NoDepthCall

GetEachSiteHirdsDepthData ==
    /\ depthCall.op = "none"
    /\ \E ari \in Aris, duration \in Durations, site \in Sites,
          rcp \in Rcps \cup {None}, time_period \in TimePeriods \cup {None} :
        \E r \in get_each_site_hirds_depth_data(depthDb, ari, duration, site,
                                                rcp, time_period) :
            /\ depthDb' = r.db
            /\ depthCall' =
                [op |-> "get_each", sites |-> <<site>>, ari |-> ari,
                 duration |-> duration, rcp |-> rcp,
                 time_period |-> time_period, outcome |-> r.outcome,
                 value |-> r.value, columns |-> <<>>, queries |-> r.queries]

HirdsDepthsFromDb ==
    /\ depthCall.op = "none"
    /\ \E ari \in Aris, duration \in Durations,
          sites_in_catchment \in SeqsUpTo(Sites, MaxLen),
          rcp \in Rcps \cup {None}, time_period \in TimePeriods \cup {None} :
        \E r \in hirds_depths_from_db(depthDb, sites_in_catchment, ari,
                                      duration, rcp, time_period) :
            /\ depthDb' = r.db
            /\ depthCall' =
                [op |-> "depths_from_db", sites |-> sites_in_catchment,
                 ari |-> ari, duration |-> duration, rcp |-> rcp,
                 time_period |-> time_period, outcome |-> r.outcome,
                 value |-> IF r.outcome = "ok" THEN r.value ELSE <<>>,
                 columns |-> IF r.outcome = "ok" THEN DepthColumns ELSE <<>>,
                 queries |-> r.queries]

\* The process ends: the result is gone, the database stays.
DepthProcessEnd ==
    /\ depthCall.op # "none"
    /\ depthCall' = NoDepthCall
    /\ UNCHANGED depthDb

DepthNext ==
    \/ GetEachSiteHirdsDepthData /\ UNCHANGED <<rainVars, tideVars, floodVars, riverVars>>
    \/ HirdsDepthsFromDb /\ UNCHANGED <<rainVars, tideVars, floodVars, riverVars>>
    \/ DepthProcessEnd /\ UNCHANGED <<rainVars, tideVars, floodVars, riverVars>>

RainIdle ==
    /\ rainDb = [t \in RainTables |-> AbsentTable]
    /\ rainCall = NoRainCall

(***************************************************************************)
(* Tide query-location resolver: tide_query_location.py                    *)
(*                                                                         *)
(* A point is <<x, y>>.  Catchment vertices have integer coordinates in    *)
(* EPSG:2193; midpoints, centroids and coastlines are held in half units   *)
(* (twice the coordinate), so that every midpoint is an integer pair.      *)
(***************************************************************************)
Double(p) == <<2 * p[1], 2 * p[2]>>

\* twice the midpoint of a and b
Mid2(a, b) == <<a[1] + b[1], a[2] + b[2]>>

\* Python's order of coordinate tuples
TupleLess(p, q) == p[1] < q[1] \/ (p[1] = q[1] /\ p[2] < q[2])

\* min(boundary_lines) and max(boundary_lines)
TupleMin(coords) ==
    CHOOSE p \in Range(coords) : \A q \in Range(coords) : ~TupleLess(q, p)
TupleMax(coords) ==
    CHOOSE p \in Range(coords) : \A q \in Range(coords) : ~TupleLess(p, q)

Positions == {"left", "right", "top", "bot"}

\* a classification that has lost its last branch
line_position_no_top(boundary_lines, centroid2) ==
    IF centroid2[1] = 2 * TupleMin(boundary_lines)[1] THEN "left"
    ELSE IF centroid2[1] = 2 * TupleMax(boundary_lines)[1] THEN "right"
    ELSE IF centroid2[2] = 2 * TupleMin(boundary_lines)[2] THEN "bot"
    ELSE "ValueError"

\* the position of a segment whose midpoint is centroid2 / 2
line_position(boundary_lines, centroid2) ==
    IF centroid2[1] = 2 * TupleMin(boundary_lines)[1] THEN "left"
    ELSE IF centroid2[1] = 2 * TupleMax(boundary_lines)[1] THEN "right"
    ELSE IF centroid2[2] = 2 * TupleMin(boundary_lines)[2] THEN "bot"
    ELSE IF centroid2[2] = 2 * TupleMax(boundary_lines)[2] THEN "top"
    ELSE "ValueError"

\* The loop over the segments from the i-th on.  The segment's boundary
\* is held in half units.
RECURSIVE BoundarySegments(_, _)
BoundarySegments(boundary_lines, i) ==
    IF i > Len(boundary_lines) - 1 THEN <<>>
    ELSE LET start_point == boundary_lines[i]
             end_point == boundary_lines[i + 1]
             centroid == Mid2(start_point, end_point)
         IN  <<[line_position |-> line_position(boundary_lines, centroid),
                centroid |-> centroid,
                boundary |-> <<Double(start_point), Double(end_point)>>]>>
             \o BoundarySegments(boundary_lines, i + 1)

\* boundary_lines is the exterior ring: its vertices, the first repeated at
\* the end.
get_catchment_boundary_info(boundary_lines) ==
    LET seg == BoundarySegments(boundary_lines, 1)
    IN  IF \E i \in 1..Len(seg) : seg[i].line_position = "ValueError"
        THEN [outcome |-> "ValueError", segments |-> <<>>]
        ELSE [outcome |-> "ok", segments |-> seg]

\* The square of the distance of point p to the segment from a to b, as a
\* fraction <<numerator, denominator>> with a positive denominator.
Dot(u, v) == u[1] * v[1] + u[2] * v[2]
Minus(u, v) == <<u[1] - v[1], u[2] - v[2]>>
Distance2(p, a, b) ==
    LET d == Minus(b, a)
        w == Minus(p, a)
        len2 == Dot(d, d)
        t == Dot(w, d)
        cross == w[1] * d[2] - w[2] * d[1]
    IN  IF len2 = 0 \/ t <= 0 THEN <<Dot(w, w), 1>>
        ELSE IF t >= len2 THEN <<Dot(Minus(p, b), Minus(p, b)), 1>>
        ELSE <<cross * cross, len2>>

FracLess(f, g) == f[1] * g[2] < g[1] * f[2]
FracLeq(f, g) == f[1] * g[2] <= g[1] * f[2]

\* GeoDataFrame.explode(ignore_index=True): one row per part
RECURSIVE explode(_)
explode(frame) ==
    IF frame = <<>> THEN <<>> ELSE Head(frame) \o explode(Tail(frame))

\* The dict `distances` after the loop over the boundary lines: the keys in
\* the order they were first set, each with the value set last.
DictKeys(boundary_lines) ==
    LET n == Len(boundary_lines)
        firsts == {i \in 1..n : \A j \in 1..(i - 1) :
                      boundary_lines[j].line_position #
                          boundary_lines[i].line_position}
        F[k \in 0..n] ==
            IF k = 0 THEN <<>>
            ELSE IF k \in firsts
                 THEN Append(F[k - 1], boundary_lines[k].line_position)
                 ELSE F[k - 1]
    IN  F[n]

DictValue(boundary_lines, key, centroid) ==
    LET n == Len(boundary_lines)
        last == CHOOSE i \in 1..n :
                    /\ boundary_lines[i].line_position = key
                    /\ \A j \in (i + 1)..n :
                          boundary_lines[j].line_position # key
    IN  Distance2(centroid, boundary_lines[last].boundary[1],
                  boundary_lines[last].boundary[2])

\* min(distances, key=distances.get): the first key with the least value
closest_line(boundary_lines, centroid) ==
    LET keys == DictKeys(boundary_lines)
        val(k) == DictValue(boundary_lines, keys[k], centroid)
        best == CHOOSE k \in 1..Len(keys) :
                    /\ \A j \in 1..Len(keys) : FracLeq(val(k), val(j))
                    /\ \A j \in 1..(k - 1) : FracLess(val(k), val(j))
    IN  keys[best]

\* non_intersection: the rows of the difference, each the centroids (half
\* units) of the parts of its geometry
get_non_intersection_centroid_position(catchment_area, non_intersection) ==
    LET info == get_catchment_boundary_info(catchment_area)
        parts == explode(non_intersection)
    IN  IF info.outcome # "ok"
        THEN [outcome |-> info.outcome, value |-> <<>>]
        ELSE [outcome |-> "ok",
              value |-> [i \in 1..Len(parts) |->
                  [position |-> closest_line(info.segments, parts[i]),
                   geometry |-> [crs |-> 2193, point |-> parts[i]]]]]

\* GeoDataFrame.to_crs(4326): every point transformed from EPSG:2193
Reproject(point, from, to) ==
    IF from = to THEN point ELSE <<"transform", from, to, point>>
to_crs(frame, crs) ==
    [i \in 1..Len(frame) |->
        [frame[i] EXCEPT !.geometry =
            [crs |-> crs, point |-> Reproject(@.point, @.crs, crs)]]]

\* a resolver that returns an empty frame where the code calls exit()
no_coastline_returns_empty(distance_km) ==
    [outcome |-> "returned", value |-> <<>>,
     log |-> <<"no tide data within distance">>]

\* log.info(...) and exit(): SystemExit leaves the call
no_coastline(distance_km) ==
    [outcome |-> "SystemExit", value |-> <<>>,
     log |-> <<"no tide data within distance">>]

\* sort_values('dist_to_coast', ascending False).head(1): a farthest centroid
nearest_centroids_farthest(segments, coastline_geom) ==
    {i \in 1..Len(segments) :
        \A j \in 1..Len(segments) :
            FracLeq(Distance2(segments[j].centroid, coastline_geom[1],
                              coastline_geom[2]),
                    Distance2(segments[i].centroid, coastline_geom[1],
                              coastline_geom[2]))}

\* sort_values('dist_to_coast').head(1): a row of the least distance (the
\* sort is not stable, any of several equal ones may come first)
nearest_centroids(segments, coastline_geom) ==
    {i \in 1..Len(segments) :
        \A j \in 1..Len(segments) :
            FracLeq(Distance2(segments[i].centroid, coastline_geom[1],
                              coastline_geom[2]),
                    Distance2(segments[j].centroid, coastline_geom[1],
                              coastline_geom[2]))}

DefaultDistanceKm == 1

\* The results a call can have.  non_intersection is the difference of the
\* catchment and the regions, coastline the rows the coastline query gives
\* for the buffered catchment (read only when the query is made).
get_tide_query_locations(catchment_area, non_intersection, coastline, distance_km) ==
    IF non_intersection # <<>>
    THEN LET r == get_non_intersection_centroid_position(catchment_area,
                                                         non_intersection)
         IN  {[outcome |-> IF r.outcome = "ok" THEN "returned" ELSE r.outcome,
               value |-> IF r.outcome = "ok" THEN to_crs(r.value, 4326) ELSE <<>>,
               coast_queries |-> 0, log |-> <<>>]}
    ELSE IF coastline # <<>>
         THEN LET coastline_geom == coastline[1]
                  info == get_catchment_boundary_info(catchment_area)
              IN  IF info.outcome # "ok"
                  THEN {[outcome |-> info.outcome, value |-> <<>>,
                         coast_queries |-> 1, log |-> <<>>]}
                  ELSE {[outcome |-> "returned",
                         value |-> to_crs(
                             <<[position |-> info.segments[i].line_position,
                                geometry |-> [crs |-> 2193,
                                    point |-> info.segments[i].centroid]]>>,
                             4326),
                         coast_queries |-> 1, log |-> <<>>] :
                        i \in nearest_centroids(info.segments, coastline_geom)}
         ELSE LET r == no_coastline(distance_km)
              IN  {[outcome |-> r.outcome, value |-> r.value,
                    coast_queries |-> 1, log |-> r.log]}

(***************************************************************************)
(* The catchments, differences and coastlines of the model.                *)
(***************************************************************************)
\* the vertices of the rings get_catchment_boundary_info is tried on
Grid == (0..(GridMax - 1)) \X (0..(GridMax - 1))

\* every closed ring of n distinct grid vertices
RingsOf(n) ==
    {Append(r, r[1]) : r \in {q \in [1..n -> Grid] :
        \A i, j \in 1..n : i # j => q[i] # q[j]}}

\* the rings of get_catchment_boundary_info: triangles and quadrilaterals
BoundaryRings == RingsOf(3) \cup RingsOf(4)

\* The catchments of the resolver: the box of width GridMax - 1 and height
\* GridMax in each of its eight traversals, the box with one more vertex on
\* its left side in both directions, and the triangles on three of its
\* corners.
BoxW == GridMax - 1
BoxH == GridMax
BoxCorners == <<(<<0, 0>>), (<<BoxW, 0>>), (<<BoxW, BoxH>>), (<<0, BoxH>>)>>
Closed(r) == Append(r, r[1])
Rotate(r, k) == [i \in 1..Len(r) |-> r[((i + k - 1) % Len(r)) + 1]]
Reverse(r) == [i \in 1..Len(r) |-> r[Len(r) + 1 - i]]
Traversals(r) ==
    {Closed(Rotate(r, k)) : k \in 0..(Len(r) - 1)} \cup
    {Closed(Rotate(Reverse(r), k)) : k \in 0..(Len(r) - 1)}
TideCatchments ==
    Traversals(BoxCorners) \cup
    UNION {{Closed(Append(BoxCorners, <<0, m>>)),
            Closed(Reverse(Append(BoxCorners, <<0, m>>)))} :
               m \in 1..(BoxH - 1)} \cup
    {Closed([i \in 1..3 |-> BoxCorners[IF i < k THEN i ELSE i + 1]]) :
        k \in 1..4}

\* catchments with two vertical sides and two slanted ones
Parallelograms ==
    {Closed(<<(<<0, s>>), (<<0, s + 1>>), (<<BoxW, 1>>), (<<BoxW, 0>>)>>) :
        s \in 1..(BoxH - 1)}

\* centroids of the parts of a difference, in half units: the points of
\* the box
CentroidPoints == (0..(2 * BoxW)) \X (0..(2 * BoxH))
\* where a second part can lie
SecondCentroids == {<<1, 1>>, <<2 * BoxW - 1, 2 * BoxH - 1>>}

\* the differences: at most two parts, in one geometry or in two rows
DifferenceFrames ==
    {<<>>} \cup {<<(<<p>>)>> : p \in CentroidPoints} \cup
    {<<(<<p, q>>)>> : p \in CentroidPoints, q \in SecondCentroids} \cup
    {<<(<<p>>), (<<q>>)>> : p \in CentroidPoints, q \in SecondCentroids}

\* coastline geometries: segments between points around and in the box,
\* in half units; the query gives at most two rows
CoastPoints == {-2, GridMax, 2 * GridMax + 2} \X {-2, GridMax, 2 * GridMax + 2}
CoastGeoms == {<<a, b>> : a \in CoastPoints, b \in CoastPoints}
SecondCoastGeoms ==
    {<<(<<-2, -2>>), (<<-2, GridMax>>)>>,
     <<(<<2 * GridMax + 2, GridMax>>), (<<2 * GridMax + 2, GridMax>>)>>}
CoastResults ==
    {<<>>} \cup {<<g>> : g \in CoastGeoms} \cup
    {<<g, h>> : g \in CoastGeoms, h \in SecondCoastGeoms}
\* the coastline table when the query is not made
CoastUnread == {<<>>, <<(<<(<<-2, -2>>), (<<-2, GridMax>>)>>)>>}

NoTideCall ==
    [op |-> "none", catchment |-> <<>>, non_intersection |-> <<>>,
     coastline |-> <<>>, outcome |-> "none", value |-> <<>>,
     coast_queries |-> 0, log |-> <<>>, printed |-> FALSE, exit_status |-> 0]

TideIdle == tideCall = NoTideCall

\* get_catchment_boundary_info on a ring
GetCatchmentBoundaryInfo ==
    /\ tideCall.op = "none"
    /\ \E ring \in BoundaryRings \cup TideCatchments \cup Parallelograms :
        LET r == get_catchment_boundary_info(ring)
        IN  tideCall' =
                [NoTideCall EXCEPT !.op = "boundary_info", !.catchment = ring,
                                   !.outcome = r.outcome, !.value = r.segments]

\* main(): the resolver is called and its result printed.  An exception
\* ends the script with a traceback and status 1, SystemExit with status 0.
TideMain ==
    /\ tideCall.op = "none"
    /\ \E catchment_area \in TideCatchments,
          non_intersection \in DifferenceFrames :
        \E coastline \in IF non_intersection # <<>> THEN CoastUnread
                                                    ELSE CoastResults :
            \E r \in get_tide_query_locations(catchment_area, non_intersection,
                                              coastline, DefaultDistanceKm) :
                tideCall' =
                    [op |-> "main", catchment |-> catchment_area,
                     non_intersection |-> non_intersection,
                     coastline |-> coastline, outcome |-> r.outcome,
                     value |-> r.value, coast_queries |-> r.coast_queries,
                     log |-> r.log, printed |-> r.outcome = "returned",
                     exit_status |->
                         IF r.outcome \in {"returned", "SystemExit"}
                         THEN 0 ELSE 1]

TideProcessEnd ==
    /\ tideCall.op # "none"
    /\ tideCall' = NoTideCall

TideNext ==
    \/ GetCatchmentBoundaryInfo /\ UNCHANGED <<rainVars, depthVars, floodVars, riverVars>>
    \/ TideMain /\ UNCHANGED <<rainVars, depthVars, floodVars, riverVars>>
    \/ TideProcessEnd /\ UNCHANGED <<rainVars, depthVars, floodVars, riverVars>>

(***************************************************************************)
(* River REC1 data (river/river_data_to_from_db.py).                       *)
(*                                                                         *)
(* A geometry is the non-empty set of the cells it covers: a intersects b  *)
(* when they share a cell, a is within b when b covers every cell of a.    *)
(***************************************************************************)
Cells == {"west", "east"}
Geometries == (SUBSET Cells) \ {{}}
ST_Intersects(a, b) == a \cap b # {}
within(a, b) == a \subseteq b
CatchIds == {1, 2}
NetworkIds == {1, 2}

\* the column names of the shapefile and their lower case
ObjectIdColumns == {"OBJECTID", "objectid"}
lower(column) == IF column = "OBJECTID" THEN "objectid" ELSE column

\* the reaches of a dataset: objectids are its feature ids, each at most once
ReachSets ==
    {rows \in SUBSET [objectid : 1..MaxReaches, geometry : Geometries] :
        \A r1 \in rows, r2 \in rows : r1.objectid = r2.objectid => r1 = r2}
\* a shapefile: the name of its id column and its features
Shapefiles == [id_column : ObjectIdColumns, rows : ReachSets \ {{}}]
\* DATA_DIR_REC1: absent, or a directory of at most two shapefiles
Rec1Dirs ==
    {[exists |-> FALSE, shp |-> {}]} \cup
    {[exists |-> TRUE, shp |-> f] : f \in {{}} \cup {{a, b} : a \in Shapefiles, b \in Shapefiles}}
SdcRows == [catch_id : CatchIds, geometry : Geometries]
NoRec1Table == [exists |-> FALSE, id_column |-> "", rows |-> {}]

\* The results of reading the dataset: any of the shapefiles may be the
\* first one the directory lists.
get_niwa_rec1_data(rec1_data_dir) ==
    IF ~rec1_data_dir.exists THEN {[outcome |-> "FileNotFoundError"]}
    ELSE IF rec1_data_dir.shp = {} THEN {[outcome |-> "FileNotFoundError"]}
    ELSE {[outcome |-> "ok", id_column |-> lower(rec1_file.id_column),
           rows |-> rec1_file.rows] : rec1_file \in rec1_data_dir.shp}

\* a store that loads the dataset whether or not the table exists
store_rec1_data_to_db_always(db, rec1_data_dir) ==
    {IF rec1_nz.outcome # "ok"
     THEN [outcome |-> rec1_nz.outcome, db |-> db, reads |-> 1, log |-> <<>>]
     ELSE [outcome |-> "returned",
           db |-> [exists |-> TRUE, id_column |-> rec1_nz.id_column,
                   rows |-> rec1_nz.rows],
           reads |-> 1, log |-> <<"stored">>] :
        rec1_nz \in get_niwa_rec1_data(rec1_data_dir)}

store_rec1_data_to_db(db, rec1_data_dir) ==
    IF db.exists
    THEN {[outcome |-> "returned", db |-> db, reads |-> 0,
           log |-> <<"already exists">>]}
    ELSE {IF rec1_nz.outcome # "ok"
          THEN [outcome |-> rec1_nz.outcome, db |-> db, reads |-> 1, log |-> <<>>]
          ELSE [outcome |-> "returned",
                db |-> [exists |-> TRUE, id_column |-> rec1_nz.id_column,
                        rows |-> rec1_nz.rows],
                reads |-> 1, log |-> <<"stored">>] :
             rec1_nz \in get_niwa_rec1_data(rec1_data_dir)}

get_sdc_data_from_db(sdc, catchment_area) ==
    {c \in sdc : ST_Intersects(c.geometry, catchment_area)}

NaN == <<"nan", 0>>
FloatValue(n) == <<"float", n>>
IntValue(n) == <<"int", n>>
astype_int(value) == IntValue(value[2])
isna(value) == value = NaN

\* the sea-draining catchments in the order of their rows in the frame
RECURSIVE SdcOrder(_)
SdcOrder(sdc_data) ==
    IF sdc_data = {} THEN <<>>
    ELSE LET first == CHOOSE c \in sdc_data : TRUE
         IN  <<first>> \o SdcOrder(sdc_data \ {first})

Joined(reach, catch_id) ==
    [objectid |-> reach.objectid, geometry |-> reach.geometry,
     catch_id |-> catch_id]

\* the rows of one reach in the left join: one for each catchment the
\* reach is within, one without catch_id when there is none
RECURSIVE JoinRows(_, _)
JoinRows(reach, sdc_seq) ==
    IF sdc_seq = <<>> THEN <<>>
    ELSE (IF within(reach.geometry, Head(sdc_seq).geometry)
          THEN <<Joined(reach, FloatValue(Head(sdc_seq).catch_id))>>
          ELSE <<>>) \o JoinRows(reach, Tail(sdc_seq))

RECURSIVE sjoin(_, _)
sjoin(rec1_data, sdc_seq) ==
    IF rec1_data = <<>> THEN <<>>
    ELSE LET rows == JoinRows(Head(rec1_data), sdc_seq)
         IN  (IF rows = <<>> THEN <<Joined(Head(rec1_data), NaN)>> ELSE rows)
             \o sjoin(Tail(rec1_data), sdc_seq)

\* a drop_duplicates that keeps every row
drop_duplicates_none(frame) == frame

\* drop_duplicates(): a row equal in every column to an earlier row goes
drop_duplicates(frame) ==
    LET marked == [i \in 1..Len(frame) |->
                      [first |-> \A j \in 1..(i - 1) : frame[j] # frame[i],
                       row |-> frame[i]]]
        kept == SelectSeq(marked, LAMBDA e : e.first)
    IN  [i \in 1..Len(kept) |-> kept[i].row]

\* a sort that leaves the frame in the order of the join
sort_values_unsorted(frame, k) == {frame}

\* sort_values(by="objectid"): the rows of objectid k and above in
\* ascending order; rows of one objectid may come in any order
RECURSIVE sort_values(_, _)
sort_values(frame, k) ==
    IF k > MaxReaches THEN {<<>>}
    ELSE {[i \in 1..Len(group) |-> frame[group[i]]] \o rest :
             group \in Orderings({i \in 1..Len(frame) : frame[i].objectid = k}),
             rest \in sort_values(frame, k + 1)}

MultipleSdc == "crossing multiple sea-draining catchments"

\* an exclusion step that records nothing
network_exclusions_none(frame) == <<>>

\* rec1_data_join_sdc[catch_id.isna()]
network_exclusions(frame) == SelectSeq(frame, LAMBDA row : isna(row.catch_id))

\* The results of one call: one for each order in which the database can
\* give the reaches and the sort can leave rows of equal objectid.
get_rec1_data_with_sdc_from_db(db, sdc, catchment_area, river_network_id) ==
    IF ~db.exists
    THEN {[outcome |-> "ProgrammingError", fetched |-> <<>>, value |-> <<>>,
           exclusion_calls |-> <<>>]}
    ELSE
    LET sdc_data == get_sdc_data_from_db(sdc, catchment_area)
        sdc_polygon == UNION {c.geometry : c \in sdc_data}
        combined_polygon == sdc_polygon \cup catchment_area
        matching == {r \in db.rows : ST_Intersects(r.geometry, combined_polygon)}
    IN  UNION {
          LET rec1_data_join_sdc == sjoin(rec1_data, SdcOrder(sdc_data))
              with_sdc == drop_duplicates(
                  SelectSeq(rec1_data_join_sdc, LAMBDA row : ~isna(row.catch_id)))
              rec1_network_exclusions == network_exclusions(rec1_data_join_sdc)
          IN  {[outcome |-> "returned", fetched |-> rec1_data,
                value |-> [i \in 1..Len(sorted) |->
                              [sorted[i] EXCEPT
                                  !.catch_id = astype_int(sorted[i].catch_id)]],
                exclusion_calls |->
                    <<[river_network_id |-> river_network_id,
                       rows |-> rec1_network_exclusions,
                       exclusion_cause |-> MultipleSdc]>>] :
                 sorted \in sort_values(with_sdc, 1)} :
          rec1_data \in Orderings(matching)}

NoRiverCall ==
    [op |-> "none", outcome |-> "none", catchment_area |-> {},
     river_network_id |-> 0, fetched |-> <<>>, value |-> <<>>,
     exclusion_calls |-> <<>>, reads |-> 0, log |-> <<>>, pre |-> NoRec1Table]

RiverIdle ==
    /\ recDb = NoRec1Table
    /\ sdcDb = {}
    /\ riverCall = NoRiverCall

\* The rec1_data table is absent or holds a dataset stored earlier; the
\* sea-draining catchments may overlap and may share a catch_id.
RiverInit ==
    /\ recDb \in {NoRec1Table} \cup
                 {[exists |-> TRUE, id_column |-> "objectid", rows |-> rows] :
                     rows \in ReachSets}
    /\ sdcDb \in {c \in SUBSET SdcRows : Cardinality(c) <= MaxSdc}
    /\ riverCall = NoRiverCall

StoreRec1DataToDb ==
    /\ riverCall.outcome = "none"
    /\ \E rec1_data_dir \in Rec1Dirs :
          \E r \in store_rec1_data_to_db(recDb, rec1_data_dir) :
             /\ recDb' = r.db
             /\ riverCall' = [NoRiverCall EXCEPT
                                 !.op = "store_rec1_data_to_db",
                                 !.outcome = r.outcome, !.reads = r.reads,
                                 !.log = r.log, !.pre = recDb]
    /\ UNCHANGED sdcDb

GetRec1DataWithSdcFromDb ==
    /\ riverCall.outcome = "none"
    /\ \E catchment_area \in Geometries, river_network_id \in NetworkIds :
          \E r \in get_rec1_data_with_sdc_from_db(recDb, sdcDb, catchment_area,
                                                  river_network_id) :
             riverCall' = [NoRiverCall EXCEPT
                              !.op = "get_rec1_data_with_sdc_from_db",
                              !.outcome = r.outcome,
                              !.catchment_area = catchment_area,
                              !.river_network_id = river_network_id,
                              !.fetched = r.fetched, !.value = r.value,
                              !.exclusion_calls = r.exclusion_calls,
                              !.pre = recDb]
    /\ UNCHANGED <<recDb, sdcDb>>

\* the caller goes on after the call
RiverCallEnd ==
    /\ riverCall.outcome # "none"
    /\ riverCall' = NoRiverCall
    /\ UNCHANGED <<recDb, sdcDb>>

RiverNext ==
    \/ StoreRec1DataToDb /\ UNCHANGED <<rainVars, depthVars, tideVars, floodVars>>
    \/ GetRec1DataWithSdcFromDb /\ UNCHANGED <<rainVars, depthVars, tideVars, floodVars>>
    \/ RiverCallEnd /\ UNCHANGED <<rainVars, depthVars, tideVars, floodVars>>

(***************************************************************************)
(* Flood model runner (flood_model/bg_flood_model.py).                     *)
(*                                                                         *)
(* A file name is its stem split at '_' (every input file has the suffix   *)
(* .txt).  A part is a word followed by a number: <<"river", 1>> is        *)
(* river1, <<"left", 0>> is left, <<"", 2>> is 2.  The content of a file   *)
(* is a sequence of lines; a line has a key, a file name and arguments.    *)
(***************************************************************************)
Word(w) == <<w, 0>>
Number(n) == <<"", n>>
Bnd == Word("bnd")
BgParam == <<Word("BG"), Word("param")>>
TidePrefixes == {Word("left"), Word("top")}
RiverPrefixes == {<<"river", n>> : n \in 1..MaxRivers}
ExtentFields == {Number(e) : e \in 1..MaxExtent}
TideFileNames == {<<p, Bnd>> : p \in TidePrefixes \cup RiverPrefixes}
RiverFileNames ==
    {<<p>> \o e : p \in RiverPrefixes, e \in SeqsUpTo(ExtentFields, MaxFields)}
ModelFileNames == TideFileNames \cup RiverFileNames \cup {BgParam}

Line(key, file, args) == [key |-> key, file |-> file, args |-> args]
\* what an input file holds at the start: data marked with the file's name
InputData(name) == <<Line(Word("data"), name, <<>>)>>

\* bg_flood_dir.glob('*_bnd.txt')
IsTideInput(name) == Len(name) >= 2 /\ name[Len(name)] = Bnd
\* bg_flood_dir.glob('river[0-9]*_*.txt')
IsRiverInput(name) == Len(name) >= 2 /\ name[1][1] = "river" /\ name[1][2] >= 1
\* the directory is listed once, in the order the file system gives
TidePattern == "*_bnd.txt"
RiverPattern == "river[0-9]*_*.txt"
fnmatch(name, pattern) ==
    IF pattern = TidePattern THEN IsTideInput(name) ELSE IsRiverInput(name)
glob(dir, pattern) == Orderings({name \in DOMAIN dir : fnmatch(name, pattern)})

Platforms == {"posix", "windows"}
RainInputTypes == {"UNIFORM", "VARYING"}
ExitCodes == {0, 1}
\* the hydro DEM of the catchment as dem_metadata_in_db gives it
HydroDems ==
    {[path |-> <<Word("dem")>>, resolution |-> 10, data_vars |-> v] :
        v \in {<<Word("z")>>, <<Word("source"), Word("z")>>}}

DefaultMask == 9999
DefaultGpuDevice == 0
DefaultSmallNc == 0
MainOutputTimestep == 100
MainEndTime == 900
\* datetime.now() of the column default, taken when the class is defined
ImportTime == 0

get_valid_model_output_path(now) ==
    [dir |-> "model_output_dir", name |-> <<<<"output", now>>>>]

BGFloodModelOutput(unique_id, file_name, file_path, geometry) ==
    [unique_id |-> unique_id, file_name |-> file_name, file_path |-> file_path,
     created_at |-> ImportTime, geometry |-> geometry]

\* a store that leaves only the new row in the table
store_model_output_metadata_replacing(table, model_output_path, catchment_boundary) ==
    <<BGFloodModelOutput(Len(table) + 1, model_output_path.name,
                         model_output_path, catchment_boundary)>>

store_model_output_metadata_to_db(table, model_output_path, catchment_boundary) ==
    Append(table, BGFloodModelOutput(Len(table) + 1, model_output_path.name,
                                     model_output_path, catchment_boundary))

\* ORDER BY created_at DESC LIMIT 1: a row of the greatest created_at
latest_model_output_filepath_from_db(table) ==
    {table[i].file_path : i \in {i \in 1..Len(table) :
        \A j \in 1..Len(table) : table[j].created_at <= table[i].created_at}}

add_crs_to_latest_model_output(table, files) ==
    {[f \in DOMAIN files |-> IF f = latest_file THEN [crs |-> TRUE] ELSE files[f]] :
        latest_file \in latest_model_output_filepath_from_db(table)}

\* a split that takes the part after the last underscore as the position
process_tide_input_files_last(tide_input_file_path) ==
    [tide_position |-> tide_input_file_path[Len(tide_input_file_path)],
     tide_file |-> tide_input_file_path]

process_tide_input_files(tide_input_file_path) ==
    [tide_position |-> tide_input_file_path[1], tide_file |-> tide_input_file_path]

\* a rename that copies: the file stays under its old name as well
rename_keeping(dir, old, new, platform) ==
    [outcome |-> "ok",
     dir |-> [n \in DOMAIN dir \cup {new} |-> IF n = new THEN dir[old] ELSE dir[n]]]

\* Path.rename: on POSIX an existing target is replaced, on Windows it
\* raises FileExistsError
rename(dir, old, new, platform) ==
    IF new \in DOMAIN dir /\ platform = "windows"
    THEN [outcome |-> "FileExistsError", dir |-> dir]
    ELSE [outcome |-> "ok",
          dir |-> [n \in (DOMAIN dir \ {old}) \cup {new} |->
                      IF n = new THEN dir[old] ELSE dir[n]]]

process_river_input_files(dir, river_input_file_path, platform) ==
    LET file_name_parts == river_input_file_path
        file_name == <<file_name_parts[1]>>
        extents == Tail(file_name_parts)
        renamed == rename(dir, river_input_file_path, file_name, platform)
    IN  [outcome |-> renamed.outcome, dir |-> renamed.dir,
         river |-> Line(Word("river"), file_name, extents)]

RECURSIVE write_tide_lines(_, _)
write_tide_lines(lines, todo) ==
    IF todo = <<>> THEN lines
    ELSE LET t == process_tide_input_files(Head(todo))
         IN  write_tide_lines(
                 Append(lines, Line(t.tide_position, t.tide_file, <<Number(2)>>)),
                 Tail(todo))

RECURSIVE write_river_lines(_, _, _, _)
write_river_lines(dir, lines, todo, platform) ==
    IF todo = <<>> THEN [outcome |-> "ok", dir |-> dir, lines |-> lines]
    ELSE LET r == process_river_input_files(dir, Head(todo), platform)
         IN  IF r.outcome # "ok"
             THEN [outcome |-> r.outcome, dir |-> dir, lines |-> lines]
             ELSE write_river_lines(r.dir, Append(lines, r.river), Tail(todo),
                                    platform)

\* The results of writing BG_param.txt: one for each order in which the
\* directory can list the tide and the river files.
get_bg_flood_model_inputs(dir, model_output_path, dem, resolution, output_timestep, end_time, mask, gpu_device, small_nc, rain_input_type, platform) ==
    IF Len(dem.data_vars) < 2
    THEN {[outcome |-> "IndexError", dir |-> dir]}
    ELSE
    LET elev_var == dem.data_vars[2]
        rainfall == IF rain_input_type = "UNIFORM"
                    THEN Line(Word("rain"), <<Word("rain"), Word("forcing")>>, <<>>)
                    ELSE Line(Word("rain"), <<Word("rain"), Word("forcing")>>,
                              <<Word("rain"), Word("intensity"), Word("mmhr")>>)
        header == <<Line(Word("topo"), dem.path, <<elev_var>>),
                    Line(Word("dx"), <<>>, <<Number(resolution)>>),
                    Line(Word("outputtimestep"), <<>>, <<Number(output_timestep)>>),
                    Line(Word("endtime"), <<>>, <<Number(end_time)>>),
                    Line(Word("mask"), <<>>, <<Number(mask)>>),
                    Line(Word("gpudevice"), <<>>, <<Number(gpu_device)>>),
                    Line(Word("smallnc"), <<>>, <<Number(small_nc)>>),
                    Line(Word("outfile"), model_output_path.name, <<>>),
                    Line(Word("outvars"), <<>>,
                         <<Word("h"), Word("hmax"), Word("zb"), Word("zs"),
                           Word("u"), Word("v")>>),
                    rainfall>>
        \* open(bg_param_path, "w+") creates or empties the file
        opened == [n \in DOMAIN dir \cup {BgParam} |->
                      IF n = BgParam THEN <<>> ELSE dir[n]]
    IN  {LET rivers == write_river_lines(opened, write_tide_lines(header, tides),
                                         river_order, platform)
         IN  [outcome |-> rivers.outcome,
              dir |-> [rivers.dir EXCEPT ![BgParam] = rivers.lines]] :
            tides \in glob(opened, TidePattern),
            river_order \in glob(opened, RiverPattern)}

BgFlood == "bg_flood_dir"
Directories == {"project_dir", BgFlood}

FloodState(d, m, t, f, g) ==
    [cwd |-> d, modelDir |-> m, outputTable |-> t, outputFiles |-> f,
     geoserver |-> g]

\* The results of one call.  st is the state at the call; dir_valid says
\* that FLOOD_MODEL_DIR names a directory, exit_code is the exit status of
\* BG_flood.exe, has_crs whether the output it writes carries a CRS.
run_bg_flood_model(st, now, dir_valid, dem, rain_input_type, platform, exit_code, has_crs) ==
    IF ~dir_valid
    THEN {[outcome |-> "FileNotFoundError", trace |-> <<>>, st |-> st]}
    ELSE
    LET bg_flood_dir == BgFlood
        model_output_path == get_valid_model_output_path(now)
        inputs == get_bg_flood_model_inputs(
                      st.modelDir, model_output_path, dem, dem.resolution,
                      MainOutputTimestep, MainEndTime, DefaultMask,
                      DefaultGpuDevice, DefaultSmallNc, rain_input_type,
                      platform)
        \* the call from os.chdir(bg_flood_dir) on, the parameter file written
        Simulate(dir) ==
            LET before == st.cwd
                written == [st EXCEPT !.modelDir = dir]
                inside == [written EXCEPT !.cwd = bg_flood_dir]
            IN  IF exit_code # 0
                THEN \* check=True raises; os.chdir(cwd) is not reached
                     {[outcome |-> "CalledProcessError",
                       trace |-> <<"write_params", "chdir", "simulate">>,
                       st |-> inside]}
                ELSE
                LET files == [f \in DOMAIN st.outputFiles \cup {model_output_path}
                                 |-> IF f = model_output_path
                                     THEN [crs |-> has_crs]
                                     ELSE st.outputFiles[f]]
                    table == store_model_output_metadata_to_db(
                                 st.outputTable, model_output_path, "catchment")
                IN  {[outcome |-> "returned",
                      trace |-> <<"write_params", "chdir", "simulate",
                                  "chdir_back", "store_metadata", "add_crs",
                                  "publish">>,
                      st |-> FloodState(before, dir, table, with_crs,
                                        Append(st.geoserver, model_output_path))] :
                        with_crs \in add_crs_to_latest_model_output(table, files)}
    IN  UNION {IF i.outcome # "ok"
               THEN {[outcome |-> i.outcome, trace |-> <<"write_params">>,
                      st |-> [st EXCEPT !.modelDir = i.dir]]}
               ELSE Simulate(i.dir) : i \in inputs}

NoFloodCall ==
    [outcome |-> "none", trace |-> <<>>, run |-> 0, exit_code |-> 0,
     pre |-> FloodState("none", <<>>, <<>>, <<>>, <<>>), output |-> <<>>]

FloodIdle ==
    /\ cwd = "project_dir"
    /\ modelDir = <<>>
    /\ outputTable = <<>>
    /\ outputFiles = <<>>
    /\ geoserver = <<>>
    /\ clock = 0
    /\ floodCall = NoFloodCall

\* The process starts in the project directory or in the model directory;
\* the model directory holds a few input files and maybe an old BG_param.txt.
FloodInit ==
    /\ cwd \in Directories
    /\ \E names \in SUBSET ModelFileNames :
          /\ Cardinality(names) <= MaxFiles
          /\ modelDir = [n \in names |-> InputData(n)]
    /\ outputTable = <<>>
    /\ outputFiles = <<>>
    /\ geoserver = <<>>
    /\ clock = 0
    /\ floodCall = NoFloodCall

RunBgFloodModel ==
    /\ floodCall.outcome = "none"
    /\ floodCall.run < MaxRuns
    /\ \E dir_valid \in BOOLEAN, dem \in HydroDems,
          rain_input_type \in RainInputTypes, platform \in Platforms,
          exit_code \in ExitCodes, has_crs \in BOOLEAN, elapsed \in 0..1 :
          LET pre == FloodState(cwd, modelDir, outputTable, outputFiles,
                                geoserver)
          IN  \E r \in run_bg_flood_model(pre, clock, dir_valid, dem,
                                          rain_input_type, platform, exit_code,
                                          has_crs) :
                 /\ cwd' = r.st.cwd
                 /\ modelDir' = r.st.modelDir
                 /\ outputTable' = r.st.outputTable
                 /\ outputFiles' = r.st.outputFiles
                 /\ geoserver' = r.st.geoserver
                 /\ clock' = clock + elapsed
                 /\ floodCall' = [outcome |-> r.outcome, trace |-> r.trace,
                                  run |-> floodCall.run + 1,
                                  exit_code |-> exit_code, pre |-> pre,
                                  output |-> get_valid_model_output_path(clock).name]

\* the caller goes on after the call (or after handling its exception)
FloodCallEnd ==
    /\ floodCall.outcome # "none"
    /\ floodCall' = [NoFloodCall EXCEPT !.run = floodCall.run]
    /\ UNCHANGED <<cwd, modelDir, outputTable, outputFiles, geoserver, clock>>

FloodNext ==
    \/ RunBgFloodModel /\ UNCHANGED <<rainVars, depthVars, tideVars, riverVars>>
    \/ FloodCallEnd /\ UNCHANGED <<rainVars, depthVars, tideVars, riverVars>>

InitFlood == FloodInit /\ RainIdle /\ DepthIdle /\ TideIdle /\ RiverIdle

SpecFlood == InitFlood /\ [][FloodNext]_vars

InitRiver == RiverInit /\ RainIdle /\ DepthIdle /\ TideIdle /\ FloodIdle

SpecRiver == InitRiver /\ [][RiverNext]_vars

InitTide == TideIdle /\ RainIdle /\ DepthIdle /\ FloodIdle /\ RiverIdle

SpecTide == InitTide /\ [][TideNext]_vars

InitDepth == DepthInit /\ RainIdle /\ TideIdle /\ FloodIdle /\ RiverIdle

SpecDepth == InitDepth /\ [][DepthNext]_vars
InitRain == RainInit /\ DepthIdle /\ TideIdle /\ FloodIdle /\ RiverIdle

SpecRain == InitRain /\ [][RainNext]_vars

(***************************************************************************)
(* Properties of the flood model runner.                                   *)
(***************************************************************************)
ParamWritten == floodCall.outcome \in {"returned", "CalledProcessError"}
HeaderKeys ==
    <<"topo", "dx", "outputtimestep", "endtime", "mask", "gpudevice", "smallnc",
      "outfile", "outvars", "rain">>
\* the files the two globs discover in the directory of before the call
DiscoveredTides ==
    {n \in DOMAIN floodCall.pre.modelDir : IsTideInput(n)}
DiscoveredRivers ==
    {n \in DOMAIN floodCall.pre.modelDir : IsRiverInput(n)}
\* the river files of a directory: river<N>_*.txt and river<N>.txt
RiverFiles(dir) == {n \in DOMAIN dir : n[1][1] = "river" /\ n[1][2] >= 1}
RiverLine(n) == Line(Word("river"), <<n[1]>>, Tail(n))
ThisOutput == [dir |-> "model_output_dir", name |-> floodCall.output]

C15_RunOrdering ==
    /\ [](floodCall.outcome = "returned"
          => /\ floodCall.exit_code = 0
             /\ floodCall.trace = <<"write_params", "chdir", "simulate",
                                    "chdir_back", "store_metadata", "add_crs",
                                    "publish">>
             /\ BgParam \in DOMAIN modelDir
             /\ Len(outputTable) = Len(floodCall.pre.outputTable) + 1
             /\ outputTable[Len(outputTable)].file_path = ThisOutput
             /\ outputTable[Len(outputTable)].file_name = floodCall.output
             /\ geoserver = Append(floodCall.pre.geoserver, ThisOutput)
             /\ \E i \in 1..Len(outputTable) :
                   outputFiles[outputTable[i].file_path].crs)
    /\ [](floodCall.outcome = "CalledProcessError"
          => /\ floodCall.exit_code # 0
             /\ floodCall.trace = <<"write_params", "chdir", "simulate">>
             /\ BgParam \in DOMAIN modelDir)
    /\ [](floodCall.outcome \notin {"none", "returned"}
          => /\ outputTable = floodCall.pre.outputTable
             /\ outputFiles = floodCall.pre.outputFiles
             /\ geoserver = floodCall.pre.geoserver)
    /\ [][\/ outputTable' = outputTable
          \/ /\ floodCall'.outcome = "returned"
             /\ Len(outputTable') = Len(outputTable) + 1
             /\ SubSeq(outputTable', 1, Len(outputTable)) = outputTable]_vars

C15_Witness ==
    /\ floodCall.outcome = "returned"
    /\ floodCall.run = 2
    /\ Len(outputTable) = 2
    /\ outputTable[1].file_path # outputTable[2].file_path

\* C16: the created_at of a row is the time the row was created, so right
\* after store_model_output_metadata_to_db stored the row of output path P
\* the latest-output query gives P, in every run of a process.
C16_LatestIsThisRun ==
    floodCall.outcome = "returned"
    => /\ latest_model_output_filepath_from_db(outputTable) = {ThisOutput}
       /\ outputTable[Len(outputTable)].created_at >= floodCall.output[1][2]

C20_NoRiverFileDestroyed ==
    ParamWritten
    => /\ Cardinality(RiverFiles(modelDir)) =
              Cardinality(RiverFiles(floodCall.pre.modelDir))
       /\ \A n \in DiscoveredRivers :
             /\ <<n[1]>> \in DOMAIN modelDir
             /\ modelDir[<<n[1]>>] = floodCall.pre.modelDir[n]

\* C1: after a call of run_bg_flood_model in which the simulator ran, ended
\* normally (exit status zero) or by CalledProcessError (non-zero exit
\* status), the working directory is the one from before the call.
C1_CwdRestored ==
    floodCall.outcome \in {"returned", "CalledProcessError"}
    => cwd = floodCall.pre.cwd


(***************************************************************************)
(* Properties of the river REC1 data.                                      *)
(***************************************************************************)
RiverReturned ==
    /\ riverCall.op = "get_rec1_data_with_sdc_from_db"
    /\ riverCall.outcome = "returned"

ReturnedIds == {riverCall.value[i].objectid : i \in 1..Len(riverCall.value)}
FetchedIds == {riverCall.fetched[i].objectid : i \in 1..Len(riverCall.fetched)}

\* C11: every reach returned by get_rec1_data_with_sdc_from_db has an
\* integer catch_id, no objectid is in more than one returned row, and the
\* rows are in ascending order of objectid, whatever the fetched reaches
\* and the intersecting sea-draining catchments, overlapping ones included.
C11_UniqueSortedReaches ==
    RiverReturned
    => /\ \A i \in 1..Len(riverCall.value) :
             riverCall.value[i].catch_id[1] = "int"
       /\ \A i \in 1..Len(riverCall.value), j \in 1..Len(riverCall.value) :
             i < j => riverCall.value[i].objectid < riverCall.value[j].objectid

\* C12: in one call of get_rec1_data_with_sdc_from_db the reaches that are
\* fetched and not returned are passed, each exactly once, in one call to
\* the exclusions service, with the given river_network_id and the cause
\* "crossing multiple sea-draining catchments"; no returned reach is
\* passed, and returned and excluded reaches together are the fetched ones.
C12_ExcludedAreTheRest ==
    RiverReturned
    => /\ Len(riverCall.exclusion_calls) = 1
       /\ LET call == riverCall.exclusion_calls[1]
              ExcludedIds == {call.rows[i].objectid : i \in 1..Len(call.rows)}
          IN  /\ call.river_network_id = riverCall.river_network_id
              /\ call.exclusion_cause = "crossing multiple sea-draining catchments"
              /\ \A i \in 1..Len(call.rows), j \in 1..Len(call.rows) :
                    call.rows[i].objectid = call.rows[j].objectid => i = j
              /\ \A i \in 1..Len(call.rows) :
                    \E k \in 1..Len(riverCall.fetched) :
                       /\ riverCall.fetched[k].objectid = call.rows[i].objectid
                       /\ riverCall.fetched[k].geometry = call.rows[i].geometry
              /\ ExcludedIds \cap ReturnedIds = {}
              /\ ExcludedIds \cup ReturnedIds = FetchedIds
              /\ FetchedIds =
                     {r.objectid : r \in {r \in recDb.rows :
                         ST_Intersects(r.geometry,
                             riverCall.catchment_area \cup
                             UNION {c.geometry : c \in {c \in sdcDb :
                                 ST_Intersects(c.geometry,
                                               riverCall.catchment_area)}})}}

C12_Witness ==
    /\ RiverReturned
    /\ Len(riverCall.value) = 2
    /\ riverCall.value[1].objectid = riverCall.value[2].objectid
    /\ Len(riverCall.exclusion_calls[1].rows) = 1
    /\ riverCall.river_network_id = 2

\* C14: store_rec1_data_to_db is idempotent: when the table rec1_data
\* exists the call reads neither directory nor shapefile and leaves the
\* table as it is; when it does not exist a successful call reads the
\* dataset and stores it (a failed one stores nothing); and no later call
\* changes a table that exists.
C14_StoreIdempotent ==
    /\ [](riverCall.op = "store_rec1_data_to_db"
          => IF riverCall.pre.exists
             THEN /\ recDb = riverCall.pre
                  /\ riverCall.reads = 0
                  /\ riverCall.outcome = "returned"
             ELSE /\ riverCall.reads = 1
                  /\ IF riverCall.outcome = "returned"
                     THEN /\ recDb.exists
                          /\ recDb.id_column = "objectid"
                          /\ recDb.rows # {}
                     ELSE /\ riverCall.outcome = "FileNotFoundError"
                          /\ recDb = riverCall.pre)
    /\ [][recDb.exists => recDb' = recDb]_vars

C14_Witness ==
    /\ riverCall.op = "store_rec1_data_to_db"
    /\ riverCall.pre.exists
    /\ riverCall.pre.rows # {}
    /\ recDb = riverCall.pre
    /\ riverCall.log = <<"already exists">>

(***************************************************************************)
(* Properties of the tide query-location resolver.                         *)
(***************************************************************************)
\* an axis-aligned rectangle of positive width and height, from any corner
\* in either direction
IsRectangle(ring) ==
    /\ Len(ring) = 5
    /\ ring[5] = ring[1]
    /\ LET xs == {ring[i][1] : i \in 1..4}
           ys == {ring[i][2] : i \in 1..4}
       IN  /\ Cardinality(xs) = 2
           /\ Cardinality(ys) = 2
           /\ {ring[i] : i \in 1..4} = xs \X ys
    /\ \A i \in 1..4 : (ring[i][1] = ring[i + 1][1]) # (ring[i][2] = ring[i + 1][2])

\* every segment of the ring has a midpoint on one of the four lines the
\* code compares it with
AllLabelable(ring) ==
    \A i \in 1..(Len(ring) - 1) :
        LET c == Mid2(ring[i], ring[i + 1])
        IN  \/ c[1] \in {2 * TupleMin(ring)[1], 2 * TupleMax(ring)[1]}
            \/ c[2] \in {2 * TupleMin(ring)[2], 2 * TupleMax(ring)[2]}

InsideCoverage == tideCall.op = "main" /\ tideCall.non_intersection = <<>>
OutsideCoverage == tideCall.op = "main" /\ tideCall.non_intersection # <<>>

Transformed(point) == [crs |-> 4326, point |-> <<"transform", 2193, 4326, point>>]

\* the value is one point: the midpoint of a segment that is no farther
\* from the geometry of the first coastline row than any other midpoint
OneNearestMidpoint ==
    /\ tideCall.outcome = "returned"
    /\ Len(tideCall.value) = 1
    /\ tideCall.value[1].position \in Positions
    /\ LET ring == tideCall.catchment
           geom == tideCall.coastline[1]
           d(i) == Distance2(Mid2(ring[i], ring[i + 1]), geom[1], geom[2])
       IN  \E i \in 1..(Len(ring) - 1) :
              /\ tideCall.value[1].geometry =
                     Transformed(Mid2(ring[i], ring[i + 1]))
              /\ \A j \in 1..(Len(ring) - 1) : FracLeq(d(i), d(j))

RECURSIVE PartsBefore(_, _)
PartsBefore(frame, r) ==
    IF r <= 1 THEN 0 ELSE Len(frame[r - 1]) + PartsBefore(frame, r - 1)
TotalParts(frame) == PartsBefore(frame, Len(frame) + 1)
PartAt(frame, k) ==
    LET r == CHOOSE r \in 1..Len(frame) :
                 PartsBefore(frame, r) < k /\ k <= PartsBefore(frame, r + 1)
    IN  frame[r][k - PartsBefore(frame, r)]

SegmentLabel(ring, j) == line_position(ring, Mid2(ring[j], ring[j + 1]))
SegmentDistance2(ring, j, point) ==
    Distance2(point, Double(ring[j]), Double(ring[j + 1]))

\* the label of a boundary segment nearest to the point
IsNearestSegmentLabel(ring, point, label) ==
    \E j \in 1..(Len(ring) - 1) :
        /\ SegmentLabel(ring, j) = label
        /\ \A k \in 1..(Len(ring) - 1) :
              FracLeq(SegmentDistance2(ring, j, point),
                      SegmentDistance2(ring, k, point))

OnePointPerPiece ==
    /\ tideCall.outcome = "returned"
    /\ Len(tideCall.value) = TotalParts(tideCall.non_intersection)
    /\ \A i \in 1..Len(tideCall.value) :
          /\ tideCall.value[i].geometry =
                 Transformed(PartAt(tideCall.non_intersection, i))
          /\ IsNearestSegmentLabel(tideCall.catchment,
                                   PartAt(tideCall.non_intersection, i),
                                   tideCall.value[i].position)

\* C8: for a catchment with a part outside the coverage, a call of
\* get_tide_query_locations makes no coastline query, and when it returns
\* (every boundary segment could be labelled) it returns one point per
\* piece of the exploded difference, the centroid of the piece, labelled
\* with the label of the nearest boundary segment.
C8_NearestSegmentLabel ==
    OutsideCoverage
    => /\ tideCall.coast_queries = 0
       /\ tideCall.outcome = "returned"
          => OnePointPerPiece

\* C9: inside the coverage with no coastline in the buffer the resolver
\* logs that no tide data is available and ends the process cleanly: it
\* returns nothing, raises no error, and the statement after the call
\* never runs.
C9_NoCoastlineExits ==
    (InsideCoverage /\ tideCall.coastline = <<>>)
    => /\ tideCall.outcome = "SystemExit"
       /\ tideCall.value = <<>>
       /\ tideCall.log = <<"no tide data within distance">>
       /\ ~tideCall.printed
       /\ tideCall.exit_status = 0
       /\ tideCall.coast_queries = 1

C9_Witness ==
    /\ InsideCoverage
    /\ tideCall.coastline = <<>>
    /\ tideCall.outcome = "SystemExit"
    /\ ~AllLabelable(tideCall.catchment)

\* C10: for every axis-aligned rectangle of positive width and height, from
\* any starting vertex in either direction, get_catchment_boundary_info
\* raises no error and gives each of the four edges one of left, right,
\* top, bot.
C10_RectangleEdgesLabelled ==
    (tideCall.op = "boundary_info" /\ IsRectangle(tideCall.catchment))
    => /\ tideCall.outcome = "ok"
       /\ Len(tideCall.value) = 4
       /\ \A i \in 1..4 :
             /\ tideCall.value[i].line_position \in Positions
             /\ tideCall.value[i].boundary =
                    <<Double(tideCall.catchment[i]),
                      Double(tideCall.catchment[i + 1])>>

C10_Witness ==
    /\ tideCall.op = "boundary_info"
    /\ IsRectangle(tideCall.catchment)
    /\ tideCall.catchment[1] = TupleMax(tideCall.catchment)
    /\ tideCall.catchment[2][2] = tideCall.catchment[1][2]
    /\ tideCall.outcome = "ok"
    /\ {tideCall.value[i].line_position : i \in 1..4} = Positions

\* the least and the greatest y over all vertices of a ring
OverallMinY(ring) ==
    CHOOSE y \in {ring[i][2] : i \in 1..Len(ring)} :
        \A i \in 1..Len(ring) : y <= ring[i][2]
OverallMaxY(ring) ==
    CHOOSE y \in {ring[i][2] : i \in 1..Len(ring)} :
        \A i \in 1..Len(ring) : y >= ring[i][2]
OverallMinX(ring) ==
    CHOOSE x \in {ring[i][1] : i \in 1..Len(ring)} :
        \A i \in 1..Len(ring) : x <= ring[i][1]
OverallMaxX(ring) ==
    CHOOSE x \in {ring[i][1] : i \in 1..Len(ring)} :
        \A i \in 1..Len(ring) : x >= ring[i][1]
\* the label of the i-th segment by the overall extrema of the ring
OverallLabel(ring, i) ==
    LET centroid2 == Mid2(ring[i], ring[i + 1])
    IN  IF centroid2[1] = 2 * OverallMinX(ring) THEN "left"
        ELSE IF centroid2[1] = 2 * OverallMaxX(ring) THEN "right"
        ELSE IF centroid2[2] = 2 * OverallMinY(ring) THEN "bot"
        ELSE IF centroid2[2] = 2 * OverallMaxY(ring) THEN "top"
        ELSE "ValueError"

\* C18: get_catchment_boundary_info labels each segment by the overall
\* extrema of the ring: left or right if its midpoint x is the least or the
\* greatest x of all vertices, else bot or top if its midpoint y is the
\* least or the greatest y of all vertices, and it raises ValueError
\* exactly when some segment matches none of the four.
C18_OverallExtremaLabels ==
    tideCall.op = "boundary_info"
    => LET ring == tideCall.catchment
           n == Len(ring) - 1
       IN  /\ tideCall.outcome = "ValueError"
                  <=> \E i \in 1..n : OverallLabel(ring, i) = "ValueError"
           /\ tideCall.outcome = "ok"
                  => /\ Len(tideCall.value) = n
                     /\ \A i \in 1..n :
                           tideCall.value[i].line_position =
                               OverallLabel(ring, i)

(***************************************************************************)
(* Properties of rainfall depth retrieval.                                 *)
(***************************************************************************)
ExactlyOneAbsent(rcp, time_period) == (rcp = None) # (time_period = None)

\* C5: get_each_site_hirds_depth_data fails with ValueError in every call
\* in which exactly one of rcp and time_period is absent, before any query
\* is executed; with both absent or both present it does not raise it.
C5_PairCheckedBeforeQuery ==
    depthCall.op = "get_each"
    => /\ ExactlyOneAbsent(depthCall.rcp, depthCall.time_period)
              <=> depthCall.outcome = "ValueError"
       /\ depthCall.outcome = "ValueError" => depthCall.queries = 0
       /\ depthCall.outcome # "ValueError" => depthCall.queries = 1

C5_Witness ==
    /\ depthCall.op = "get_each"
    /\ depthCall.rcp # None
    /\ depthCall.time_period = None
    /\ depthCall.outcome = "ValueError"
    /\ \E r \in depthDb : r.site_id = depthCall.sites[1] /\ r.ari = depthCall.ari

\* C6: when hirds_depths_from_db returns, its table has the columns
\* site_id and depth and one row per catchment site, in the order of the
\* sites, each holding a depth the query selects for that site; for no
\* sites it returns the empty table with these columns; and no call
\* changes the database.
C6_OneRowPerSite ==
    [][depthCall'.op = "depths_from_db"
       => /\ depthDb' = depthDb
          /\ depthCall'.outcome = "ok"
             => /\ depthCall'.columns = DepthColumns
                /\ Len(depthCall'.value) = Len(depthCall'.sites)
                /\ \A i \in 1..Len(depthCall'.sites) :
                      /\ Len(depthCall'.value[i]) = 2
                      /\ depthCall'.value[i][1] = depthCall'.sites[i]
                      /\ \E r \in MatchingRows(depthDb, depthCall'.ari,
                                     depthCall'.duration, depthCall'.sites[i],
                                     depthCall'.rcp, depthCall'.time_period) :
                            depthCall'.value[i][2] =
                                DurationColumn(r, depthCall'.duration)
          /\ depthCall'.sites = <<>>
             => /\ depthCall'.outcome = "ok"
                /\ depthCall'.value = <<>>
                /\ depthCall'.columns = DepthColumns]_vars

C6_Witness ==
    /\ depthCall.op = "depths_from_db"
    /\ depthCall.outcome = "ok"
    /\ Len(depthCall.sites) = 2
    /\ depthCall.value[1] # depthCall.value[2]
    /\ depthCall.rcp # None


(***************************************************************************)
(* Properties of rainfall ingestion.                                       *)
(***************************************************************************)
RainCallDone == rainCall.outcome # "none"

\* the table a call with this idf is documented to fill
TargetTable(idf) == IF idf THEN "rainfall_intensity" ELSE "rainfall_depth"

\* the sites a call has to fetch: the missing ones, or all without a table
SitesToFetch ==
    IF rainCall.preExists
    THEN Range(rainCall.sites) \ rainCall.preSites
    ELSE Range(rainCall.sites)

\* C2: when the target table exists and holds every site id of the
\* catchment, a call of rainfall_data_to_db fetches nothing, inserts nothing
\* and leaves the database unchanged, for either idf; and a call repeated
\* right after a successful call with the same arguments fetches and inserts
\* nothing.
C2_RerunFetchesNothing ==
    [][/\ (/\ rainCall.outcome = "none"
           /\ rainCall'.outcome # "none"
           /\ check_table_exists(rainDb, TargetTable(rainCall'.idf))
           /\ Range(rainCall'.sites) \subseteq
                  DistinctSiteIds(rainDb, TargetTable(rainCall'.idf)))
          => /\ rainCall'.fetched = <<>>
             /\ rainCall'.inserted = <<>>
             /\ rainCall'.outcome = "ok"
             /\ rainDb' = rainDb
       /\ rainCall'.outcome = "ok"
          => \A r \in rainfall_data_to_db(rainDb', rainCall'.sites, rainCall'.idf) :
                /\ r.fetched = <<>>
                /\ r.inserted = <<>>
                /\ r.db = rainDb'
                /\ r.outcome = "ok"]_vars

C2_Witness ==
    /\ RainCallDone
    /\ rainCall.preExists
    /\ rainCall.sites # <<>>
    /\ Range(rainCall.sites) \subseteq rainCall.preSites
    /\ rainCall.fetched = <<>>

\* C3: after rainfall_data_to_db returned normally, every site id of
\* sites_in_catchment has rows in the target table (rainfall_depth for idf
\* false, rainfall_intensity for idf true), whatever the table held before.
C3_AllSitesPresent ==
    rainCall.outcome = "ok"
    => /\ Range(rainCall.sites) \subseteq
              DistinctSiteIds(rainDb, TargetTable(rainCall.idf))
       /\ rainCall.sites # <<>>
              => check_table_exists(rainDb, TargetTable(rainCall.idf))

C3_Witness ==
    /\ rainCall.outcome = "ok"
    /\ rainCall.preExists
    /\ rainCall.preSites # {}
    /\ Range(rainCall.sites) \ rainCall.preSites # {}
    /\ Range(rainCall.sites) \subseteq
           DistinctSiteIds(rainDb, TargetTable(rainCall.idf))

\* C4: the sites a call fetches and inserts are the catchment sites missing
\* from the target table when it exists, and all catchment sites when it
\* does not: no other site is ever fetched, a call that returns normally
\* has fetched and inserted exactly these, and when there are none nothing
\* is fetched or inserted.
C4_FetchesExactlyMissing ==
    RainCallDone
    => /\ Range(rainCall.fetched) \subseteq SitesToFetch
       /\ Range(rainCall.fetched) \cap rainCall.preSites = {}
       /\ {r[1] : r \in Range(rainCall.inserted)} \subseteq Range(rainCall.fetched)
       /\ rainCall.outcome = "ok"
              => /\ Range(rainCall.fetched) = SitesToFetch
                 /\ {r[1] : r \in Range(rainCall.inserted)} = SitesToFetch
       /\ SitesToFetch = {}
              => rainCall.fetched = <<>> /\ rainCall.inserted = <<>>

C4_Witness ==
    /\ rainCall.outcome = "ok"
    /\ rainCall.preExists
    /\ SitesToFetch # {}
    /\ SitesToFetch # Range(rainCall.sites)
    /\ Range(rainCall.fetched) = SitesToFetch

\* C17: when the HIRDS fetch of a site fails during rainfall_data_to_db the
\* failure leaves the call; the failed ingestion appends no row (the site
\* has no new row unless the list held it before), and the blocks appended
\* earlier in the call for the sites before it stay in the table.
C17_FetchFailurePropagates ==
    [][rainCall'.outcome = "HirdsError"
       => LET call == rainCall'
              t == TargetTable(call.idf)
              k == Len(call.fetched)
              Appended(site, b) ==
                  Cardinality({i \in 1..Len(call.inserted) :
                                  call.inserted[i] = <<site, b>>})
              Earlier(site) == {i \in 1..(k - 1) : call.fetched[i] = site}
          IN  /\ k >= 1
              /\ \A site \in Sites, b \in 1..MaxBlocks :
                    /\ rainDb'[t].rows[site][b] =
                           rainDb[t].rows[site][b] + Appended(site, b)
                    /\ Appended(site, b) =
                           IF b \in get_layout_structure_of_data(site, call.idf)
                           THEN Cardinality(Earlier(site)) ELSE 0
              /\ Earlier(call.fetched[k]) = {}
                 => rainDb'[t].rows[call.fetched[k]] =
                        rainDb[t].rows[call.fetched[k]]
              /\ \A other \in RainTables \ {t} : rainDb'[other] = rainDb[other]
              /\ Len(call.log) = k - 1]_vars

C17_Witness ==
    /\ rainCall.outcome = "HirdsError"
    /\ Len(rainCall.fetched) = 2
    /\ rainCall.fetched[1] # rainCall.fetched[2]
    /\ rainCall.inserted # <<>>

\* the layout blocks of a site that the table holds
StoredBlocks(table_name, site_id) ==
    {b \in 1..MaxBlocks : rainDb[table_name].rows[site_id][b] > 0}
\* a sequence without a repeated element
NoRepeats(seq) == \A i, j \in 1..Len(seq) : i # j => seq[i] # seq[j]

\* C21: in one call of rainfall_data_to_db every site id is fetched from
\* HIRDS at most once and each of its layout blocks is inserted at most
\* once, whether the target table exists or not, also when
\* sites_in_catchment lists a site id more than once.
C21_EachSiteFetchedOnce ==
    RainCallDone
    => /\ NoRepeats(rainCall.fetched)
       /\ NoRepeats(rainCall.inserted)

\* C22: a site id present in a rainfall table has complete data: after a
\* call of rainfall_data_to_db that ends without a failure, every site of
\* its sites_in_catchment has all layout blocks of its HIRDS response in
\* the target table, also when an earlier call was aborted while appending
\* the blocks of the site.
C22_PresentSitesComplete ==
    rainCall.outcome = "ok"
    => \A s \in Range(rainCall.sites) :
          StoredBlocks(db_rain_table_name(rainCall.idf), s) =
              get_layout_structure_of_data(s, rainCall.idf)

====
